---- MODULE Spec2Model ----
(***************************************************************************)
(* Frame-analysis pipeline of belt-monitor (src/app/belt_analyzer.py):     *)
(* BeltAnalyzer.analyze_video / analyze_image with the measurement and     *)
(* seam events they run on every sampled frame, the statistics and the     *)
(* dictionary form of their result, and the REST service of                *)
(* src/app/api.py that stores the results.                                 *)
(*                                                                         *)
(* Specifications:                                                         *)
(*   Spec       one analysis of a video or an image;                       *)
(*   SpecRerun  one analysis, then a second one of the same source on the  *)
(*              same analyzer;                                             *)
(*   SpecConc   two video analyses whose steps interleave;                 *)
(*   SpecStats  the statistics properties and to_dict on finished results; *)
(*   SpecEdges  detect_belt_edges applied to one binary mask;              *)
(*   SpecApi    the requests of the REST service.                          *)
(*                                                                         *)
(* A frame is a record [id, mask, gray, line]:                             *)
(*   mask  the binary image (values 0 / 255) that the cv2 pipeline of      *)
(*         preprocess_frame produces for the frame, rows 0..h-1 of         *)
(*         columns 0..w-1;                                                 *)
(*   gray  the intensity of the frame's (uniform) grayscale image;         *)
(*   line  whether Canny + HoughLinesP find a nearly horizontal line.      *)
(* Python's Optional values are sequences: None is <<>>, a present value   *)
(* x is <<x>>.                                                             *)
(***************************************************************************)
EXTENDS Integers, Sequences, FiniteSets, TLC

VARIABLES
    mode,                 \* "video" (analyze_video) or "image" (analyze_image)
    min_width_threshold,  \* self.min_width_threshold
    max_width_threshold,  \* self.max_width_threshold
    sample_rate,          \* parameter sample_rate of analyze_video
    roi,                  \* self.roi (Optional): <<x, y, w, h>>
    source_ok,            \* whether the video opens / the image decodes
    pc,                   \* position of the run
    frame_count,          \* local frame_count
    frame,                \* local frame (Optional): the frame last read
    prev_frame,           \* local prev_frame (Optional)
    width,                \* local width (Optional): last measure_width result
    current_segment,      \* local current_segment / segment
    segments,             \* local segments
    alerts,               \* local alerts
    result,               \* the returned AnalysisResult (Optional)
    video,                \* history: ids of the frames decoded so far
    runs,                 \* number of analyses begun on this analyzer
    first_result,         \* what the first analysis returned (Optional)
    first_video,          \* the frames the first analysis decoded
    other,                \* the locals of a second analysis that is in
                          \* progress but not running now (Optional)
    stats,                \* the statistics read from current_segment
                          \* (Optional)
    report,               \* what result.to_dict() returned (Optional)
    belt_edges,           \* what detect_belt_edges returned for the mask
                          \* of frame (Optional)
    analysis_results,     \* api.analysis_results: analysis_id -> result
    analysis_id,          \* analysis_id of the analyze request being
                          \* handled (Optional)
    uploads,              \* the files in UPLOAD_DIR
    response,             \* the last response of the API (Optional)
    deleted               \* history: the ids a DELETE has removed

\* what a run is given: the analyzer's fields, the arguments, the source
config == <<mode, min_width_threshold, max_width_threshold, sample_rate, roi,
            source_ok>>

\* what lives outside the running analysis
\* the state of the REST service
api == <<analysis_results, analysis_id, uploads, response, deleted>>

outer == <<runs, first_result, first_video, other, stats, report, belt_edges,
           api>>

\* the locals of the running analysis
locals == [pc |-> pc, frame_count |-> frame_count, frame |-> frame,
           prev_frame |-> prev_frame, width |-> width,
           current_segment |-> current_segment, segments |-> segments,
           alerts |-> alerts, result |-> result, video |-> video]

vars == <<config, outer, pc, frame_count, frame, prev_frame, width,
          current_segment, segments, alerts, result, video>>

----------------------------------------------------------------------------
(* Bounds of the model *)

MaxFrames == 4     \* longest video, in decoded frames
MaxRate == 2       \* largest sample rate, in absolute value
MaxReplay == 3     \* longest video that is analysed a second time
MaxConcFrames == 2 \* longest video of two analyses in progress together
MaxWidths == 3     \* longest width list whose statistics are read
MaxApiFrames == 2  \* longest video uploaded to the service
MaxClock == 2      \* number of readings the clock of the service takes
FrameCols == 60    \* columns of a frame
FrameRows == 4     \* rows of a frame
ImageCols == 8     \* columns of a small image
MaskCols == 3      \* columns of a mask given to detect_belt_edges

(* Configurations the analyzer is constructed with *)
MinWidthChoices == {0, 50}
MaxWidthChoices == {57}

\* sample_rate is any integer: neither api.py nor main.py validates it
RateChoices == (-MaxRate)..MaxRate

(* seam_detection_threshold = 0.3, in tenths *)
SeamThresholdTenths == 3

----------------------------------------------------------------------------
(* Optional values *)

None == <<>>
Some(x) == <<x>>
Get(o) == o[1]

\* Python truthiness of an Optional number: None and 0 are falsy
Truthy(o) == o /= None /\ Get(o) /= 0

Last(q) == q[Len(q)]

Abs(x) == IF x < 0 THEN -x ELSE x

Min(a, b) == IF a < b THEN a ELSE b

\* Python's a % b for b /= 0: the result has the sign of b
PyMod(a, b) == IF b > 0 THEN a % b ELSE -((-a) % (-b))

----------------------------------------------------------------------------
(* Frames *)

\* a mask of c columns whose columns l..r are foreground in every row and
\* whose column s is foreground in the first row only (s = -1: no such column)
BeltMask(c, l, r, s) ==
    [y \in 0..(FrameRows - 1) |->
        [x \in 0..(c - 1) |->
            IF (l <= x /\ x <= r) \/ (x = s /\ y = 0) THEN 255 ELSE 0]]

Frame(i, m, g, ln) == [id |-> i, mask |-> m, gray |-> g, line |-> ln]

\* the frames a video is made of
FrameSet ==
    { Frame(1, BeltMask(FrameCols, 1, 0, -1), 0, FALSE),   \* no foreground
      Frame(2, BeltMask(FrameCols, 2, 52, 0), 0, FALSE),   \* width 50
      Frame(3, BeltMask(FrameCols, 2, 57, -1), 100, FALSE),\* width 55, brighter
      Frame(4, BeltMask(FrameCols, 2, 58, -1), 76, FALSE), \* width 56
      Frame(5, BeltMask(FrameCols, 2, 59, -1), 0, TRUE),   \* width 57, line
      Frame(6, BeltMask(FrameCols, 1, 59, -1), 0, TRUE),   \* width 58, line
      Frame(7, BeltMask(FrameCols, 2, 51, -1), 77, FALSE) }\* width 49

\* the images analyze_image is given
ImageSet ==
    { Frame(11, BeltMask(ImageCols, 1, 0, -1), 0, FALSE),  \* no foreground
      Frame(12, BeltMask(ImageCols, 3, 3, -1), 0, FALSE),  \* width 0
      Frame(13, BeltMask(ImageCols, 1, 0, 4), 0, FALSE),   \* sparse column
      Frame(14, BeltMask(ImageCols, 1, 5, -1), 0, FALSE),  \* width 4
      Frame(15, BeltMask(FrameCols, 2, 52, 0), 0, FALSE),  \* width 50
      Frame(16, BeltMask(FrameCols, 2, 57, -1), 0, FALSE), \* width 55
      Frame(17, BeltMask(FrameCols, 2, 59, -1), 0, FALSE), \* width 57
      Frame(18, BeltMask(FrameCols, 1, 59, -1), 0, FALSE) }\* width 58

\* the frames and images by their id
FramesById ==
    [i \in {f.id : f \in FrameSet \cup ImageSet} |->
        CHOOSE f \in FrameSet \cup ImageSet : f.id = i]

FrameById(i) == FramesById[i]

\* the regions of interest an analyzer is constructed with: none, one at the
\* origin, one that starts at column 1
RoiChoices ==
    { None,
      Some(<<0, 0, FrameCols - 1, FrameRows>>),
      Some(<<1, 0, FrameCols - 1, FrameRows>>) }

\* numpy's m[y:y+h, x:x+w]: the slice is cut at the borders of m
CropMask(m, r) ==
    LET rows == Cardinality(DOMAIN m)
        cols == Cardinality(DOMAIN m[0])
        x0 == Min(r[1], cols)
        x1 == Min(r[1] + r[3], cols)
        y0 == Min(r[2], rows)
        y1 == Min(r[2] + r[4], rows)
    IN [y \in 0..(y1 - y0 - 1) |->
           [x \in 0..(x1 - x0 - 1) |-> m[y0 + y][x0 + x]]]

\* frame[y:y+h, x:x+w] of a frame
Crop(f, r) == [f EXCEPT !.mask = CropMask(@, r)]

\* roi_frame of analyze_video: the frame cut to self.roi when one is set
RoiFrame(f) == IF roi /= None THEN Crop(f, Get(roi)) ELSE f

----------------------------------------------------------------------------
(* BeltAnalyzer.preprocess_frame: the frame is cut to self.roi when one is  *)
(* set, then turned into its binary mask                                   *)
preprocess_frame(f) == (IF roi /= None THEN Crop(f, Get(roi)) ELSE f).mask

\* np.sum(binary, axis=0) / 255 at column i
RECURSIVE ColumnSum(_, _, _)
ColumnSum(binary, i, y) ==
    IF y < 0 THEN 0 ELSE binary[y][i] + ColumnSum(binary, i, y - 1)

Projection(binary, i) ==
    ColumnSum(binary, i, Cardinality(DOMAIN binary) - 1) \div 255

\* cv2.findContours returns no contour exactly for a mask without foreground
NoContours(binary) ==
    \A y \in DOMAIN binary : \A x \in DOMAIN binary[y] : binary[y][x] = 0

\* variant: a column at exactly 30% of the height counts as an edge
ExceedsThreshold_AtLeast(p, height) == 10 * p >= 3 * height

\* projection[i] > threshold, with threshold = height * 0.3
ExceedsThreshold(p, height) == 10 * p > 3 * height

\* the scan loop of detect_belt_edges, from index i on
RECURSIVE ScanEdges(_, _, _, _, _)
ScanEdges(binary, n, i, left, right) ==
    IF i >= n THEN <<left, right>>
    ELSE LET height == Cardinality(DOMAIN binary)
             l2 == IF ExceedsThreshold(Projection(binary, i), height)
                      /\ left = None
                   THEN Some(i) ELSE left
             r2 == IF ExceedsThreshold(Projection(binary, n - 1 - i), height)
                      /\ right = None
                   THEN Some(n - 1 - i) ELSE right
         IN IF l2 /= None /\ r2 /= None THEN <<l2, r2>>
            ELSE ScanEdges(binary, n, i + 1, l2, r2)

(* BeltAnalyzer.detect_belt_edges *)
detect_belt_edges(binary) ==
    IF NoContours(binary) THEN <<None, None>>
    ELSE ScanEdges(binary, Cardinality(DOMAIN binary[0]), 0, None, None)

\* variant: the maximum width itself is rejected
measure_width_Strict(f) ==
    LET binary == preprocess_frame(f)
        edges == detect_belt_edges(binary)
        left == edges[1]
        right == edges[2]
    IN IF left = None \/ right = None THEN None
       ELSE LET w == Abs(Get(right) - Get(left))
            IN IF w < min_width_threshold \/ w >= max_width_threshold
               THEN None ELSE Some(w)

(* BeltAnalyzer.measure_width *)
measure_width(f) ==
    LET binary == preprocess_frame(f)
        edges == detect_belt_edges(binary)
        left == edges[1]
        right == edges[2]
    IN IF left = None \/ right = None THEN None
       ELSE LET w == Abs(Get(right) - Get(left))
            IN IF w < min_width_threshold \/ w > max_width_threshold
               THEN None ELSE Some(w)

(* BeltAnalyzer.detect_seam: f a frame, prev an Optional frame *)
\* variant: a frame without a previous frame counts as a seam
detect_seam_FirstFires(f, prev) ==
    IF prev = None THEN TRUE
    ELSE IF f.line THEN TRUE
    ELSE 10 * Abs(f.gray - Get(prev).gray) > SeamThresholdTenths * 255

detect_seam(f, prev) ==
    IF prev = None THEN FALSE
    ELSE IF f.line THEN TRUE
    ELSE 10 * Abs(f.gray - Get(prev).gray) > SeamThresholdTenths * 255

\* Thresholds m (multiples of 10 up to 200) whose double product m * 1.1 is
\* rounded above the exact value 11m/10: 100.0 * 1.1 = 110.00000000000001
ProductRoundsUp == {50, 90, 100, 110, 170, 180, 190, 200}

\* width < self.min_width_threshold * 1.1, in IEEE double arithmetic
BelowWarnLimit(w, m) ==
    \/ 10 * w < 11 * m
    \/ 10 * w = 11 * m /\ m \in ProductRoundsUp

----------------------------------------------------------------------------
(* Segments and alerts *)

SegmentMeasurement(id, fs, fe, ws) ==
    [segment_id |-> id, frame_start |-> fs, frame_end |-> fe, widths |-> ws]

VideoAlert(fc, w) ==
    [type |-> "width_warning", frame |-> fc, message |-> w,
     severity |-> "warning"]

ImageAlert(w) ==
    [type |-> "width_warning", message |-> w, severity |-> "warning"]

\* the AnalysisResult, by its segment list and its alert list
AnalysisResult(segs, als) == [segments |-> segs, alerts |-> als]

\* variant: the sampling test made on the 0-based index of the frame
IsSkipped_ZeroBased(fc, rate) == PyMod(fc - 1, rate) /= 0

\* frame_count % sample_rate != 0: the frame is not sampled
IsSkipped(fc, rate) == PyMod(fc, rate) /= 0

\* variant: the new width put in front of the earlier ones
MeasuredSegment_Prepend(cur, w, fc) ==
    IF w /= None
    THEN [cur EXCEPT !.widths = <<Get(w)>> \o @, !.frame_end = fc]
    ELSE cur

\* variant: a missing measurement recorded as width 0
MeasuredSegment_Zero(cur, w, fc) ==
    IF w /= None
    THEN [cur EXCEPT !.widths = Append(@, Get(w)), !.frame_end = fc]
    ELSE [cur EXCEPT !.widths = Append(@, 0)]

\* variant: frame_end is written by the first measurement of a segment only
MeasuredSegment_EndOnce(cur, w, fc) ==
    IF w /= None
    THEN [cur EXCEPT !.widths = Append(@, Get(w)),
                     !.frame_end = IF cur.widths = <<>> THEN fc ELSE @]
    ELSE cur

\* current_segment after the measurement event: w the Optional width
MeasuredSegment(cur, w, fc) ==
    IF w /= None
    THEN [cur EXCEPT !.widths = Append(@, Get(w)), !.frame_end = fc]
    ELSE cur

\* alerts after the measurement event: w the Optional width
MeasuredAlerts(als, w, fc) ==
    IF w /= None /\ BelowWarnLimit(Get(w), min_width_threshold)
    THEN Append(als, VideoAlert(fc, Get(w)))
    ELSE als

\* variant: the new segment keeps frame_end at its default
NewSegment_NoEnd(segs, fc) == SegmentMeasurement(Len(segs) + 1, fc, 0, <<>>)

\* variant: the new id counts the seams instead of the appended segments
NewSegment_NextId(segs, fc) ==
    SegmentMeasurement(current_segment.segment_id + 1, fc, fc, <<>>)

\* the segment opened by a seam at frame fc
NewSegment(segs, fc) == SegmentMeasurement(Len(segs) + 1, fc, fc, <<>>)

\* variant: the closed segment is appended even without measurements
CloseSegment_Always(segs, cur) == Append(segs, cur)

\* the segment list after the seam closes segment cur
CloseSegment(segs, cur) ==
    IF cur.widths /= <<>> THEN Append(segs, cur) ELSE segs

\* variant: the no-seam fallback adds the segment without looking at the list
FinalSegments_Twice(segs, cur) ==
    LET closed == IF cur.widths /= <<>> THEN Append(segs, cur) ELSE segs
    IN IF cur.segment_id = 1 /\ cur.widths /= <<>>
       THEN Append(closed, cur)
       ELSE closed

\* variant: the open segment is returned only when no seam closed one
FinalSegments_FallbackOnly(segs, cur) ==
    IF segs = <<>>
    THEN (IF cur.widths /= <<>> THEN <<cur>> ELSE <<>>)
    ELSE segs

\* the segment list returned once the frame source is exhausted
FinalSegments(segs, cur) ==
    LET closed == IF cur.widths /= <<>> THEN Append(segs, cur) ELSE segs
    IN IF closed = <<>>
       THEN (IF cur.widths /= <<>> THEN <<cur>> ELSE <<>>)
       ELSE closed

----------------------------------------------------------------------------
(* Initial state: an analyzer has been constructed, no analysis has begun *)

Init ==
    /\ mode \in {"video", "image"}
    /\ min_width_threshold \in MinWidthChoices
    /\ max_width_threshold \in MaxWidthChoices
    /\ sample_rate \in RateChoices
    /\ roi \in RoiChoices
    /\ source_ok \in BOOLEAN
    /\ (mode = "image" => sample_rate = 1)
    /\ (sample_rate < 1 \/ roi /= None => min_width_threshold = 50)
    /\ (sample_rate /= 1 => roi = None)
    /\ pc = "start"
    /\ frame_count = 0
    /\ frame = None
    /\ prev_frame = None
    /\ width = None
    /\ current_segment = SegmentMeasurement(0, 0, 0, <<>>)
    /\ segments = <<>>
    /\ alerts = <<>>
    /\ result = None
    /\ video = <<>>
    /\ runs = 1
    /\ first_result = None
    /\ first_video = <<>>
    /\ other = None
    /\ stats = None
    /\ report = None
    /\ belt_edges = None
    /\ analysis_results = <<>>
    /\ analysis_id = None
    /\ uploads = {}
    /\ response = None
    /\ deleted = {}

\* the second analysis reads the source of the first: ids is a prefix of
\* the frames the first analysis decoded
Replays(ids) ==
    runs = 2 => /\ Len(ids) <= Len(first_video)
                /\ ids = SubSeq(first_video, 1, Len(ids))

\* the longest video of the run
FrameLimit ==
    IF other /= None THEN MaxConcFrames
    ELSE IF analysis_id /= None THEN MaxApiFrames
    ELSE MaxFrames

\* variant: the open test of the source is left out
IsOpened_Unchecked(ok) == TRUE

\* cap.isOpened() / frame is not None
IsOpened(ok) == ok

\* variant: the alert list is the one the previous analysis filled
InitialAlerts_Kept(left) == left

\* alerts = []: left is what an earlier analysis on the analyzer left behind
InitialAlerts(left) == <<>>

(* analyze_video up to the loop: the source opens and the locals are set *)
StartVideo ==
    /\ pc = "start" /\ mode = "video"
    /\ IsOpened(source_ok)
    /\ segments' = <<>>
    /\ current_segment' = SegmentMeasurement(1, 0, 0, <<>>)
    /\ alerts' = InitialAlerts(alerts)
    /\ prev_frame' = None
    /\ frame_count' = 0
    /\ pc' = "read"
    /\ UNCHANGED <<config, outer, frame, width, result, video>>

(* analyze_video: cap.isOpened() is false, ValueError *)
StartVideoFail ==
    /\ pc = "start" /\ mode = "video"
    /\ ~IsOpened(source_ok)
    /\ pc' = "error"
    /\ UNCHANGED <<config, outer, frame_count, frame, prev_frame, width,
                   current_segment, segments, alerts, result, video>>

(* one cap.read() that returns a frame: count it, sample it or skip it;   *)
(* frame_count % 0 raises ZeroDivisionError                                *)
\* the frames the videos of a run are made of: all of them with every
\* frame sampled and no region of interest, four of them (no belt, a
\* narrow belt, a brighter belt, a belt that is too wide under a line)
\* otherwise
VideoIds ==
    IF sample_rate = 1 /\ roi = None THEN {f.id : f \in FrameSet}
    ELSE {1, 2, 3, 6}

ReadFrame(f) ==
    /\ pc = "read"
    /\ Len(video) < FrameLimit
    /\ f.id \in VideoIds
    /\ Replays(Append(video, f.id))
    /\ frame' = Some(f)
    /\ video' = Append(video, f.id)
    /\ frame_count' = frame_count + 1
    /\ pc' = IF sample_rate = 0 THEN "zero_division"
             ELSE IF IsSkipped(frame_count + 1, sample_rate)
                  THEN "read" ELSE "measure"
    /\ UNCHANGED <<config, outer, prev_frame, width, current_segment, segments,
                   alerts, result>>

(* the measurement event of a sampled frame *)
Measure ==
    /\ pc = "measure"
    /\ LET roi_frame == RoiFrame(Get(frame))
           w == measure_width(roi_frame)
       IN /\ width' = w
          /\ current_segment' = MeasuredSegment(current_segment, w, frame_count)
          /\ alerts' = MeasuredAlerts(alerts, w, frame_count)
    /\ pc' = "seam"
    /\ UNCHANGED <<config, outer, frame_count, frame, prev_frame, segments, result,
                   video>>

\* variant: the seam is applied before the measurement of the frame is
\* recorded, which goes to the segment the seam opens
SeamCheck_MeasureAfter ==
    /\ pc = "seam"
    /\ LET roi_frame == RoiFrame(Get(frame))
           before == IF width /= None
                     THEN [current_segment EXCEPT
                              !.widths = SubSeq(@, 1, Len(@) - 1)]
                     ELSE current_segment
       IN /\ IF detect_seam(roi_frame, prev_frame)
             THEN /\ segments' = CloseSegment(segments, before)
                  /\ current_segment' =
                        MeasuredSegment(
                            NewSegment(CloseSegment(segments, before),
                                       frame_count),
                            width, frame_count)
             ELSE UNCHANGED <<segments, current_segment>>
          /\ prev_frame' = Some(roi_frame)
    /\ pc' = "read"
    /\ UNCHANGED <<config, outer, frame_count, frame, width, alerts, result, video>>

(* the seam event of a sampled frame, then prev_frame = roi_frame.copy() *)
SeamCheck ==
    /\ pc = "seam"
    /\ LET roi_frame == RoiFrame(Get(frame))
       IN /\ IF detect_seam(roi_frame, prev_frame)
             THEN /\ segments' = CloseSegment(segments, current_segment)
                  /\ current_segment' =
                        NewSegment(CloseSegment(segments, current_segment),
                                   frame_count)
             ELSE UNCHANGED <<segments, current_segment>>
          /\ prev_frame' = Some(roi_frame)
    /\ pc' = "read"
    /\ UNCHANGED <<config, outer, frame_count, frame, width, alerts, result, video>>

\* variant: the failed read returns the closed segments only
EndOfStream_NoFinal ==
    /\ pc = "read"
    /\ result' = Some(AnalysisResult(segments, alerts))
    /\ pc' = "done"
    /\ UNCHANGED <<config, outer, frame_count, frame, prev_frame, width,
                   current_segment, segments, alerts, video>>

(* cap.read() fails: leave the loop, close the last segment, return *)
EndOfStream ==
    /\ pc = "read"
    /\ runs = 2 => video = first_video
    /\ segments' = FinalSegments(segments, current_segment)
    /\ result' = Some(AnalysisResult(
                        FinalSegments(segments, current_segment), alerts))
    /\ pc' = "done"
    /\ UNCHANGED <<config, outer, frame_count, frame, prev_frame, width,
                   current_segment, alerts, video>>

(* analyze_image on an image that decodes to frame f *)
AnalyzeImage(f) ==
    /\ pc = "start" /\ mode = "image"
    /\ IsOpened(source_ok)
    /\ Replays(<<f.id>>)
    /\ LET w == measure_width(f)
           segment == SegmentMeasurement(1, 0, 0,
                          IF Truthy(w) THEN <<Get(w)>> ELSE <<>>)
           als == IF Truthy(w)
                     /\ BelowWarnLimit(Get(w), min_width_threshold)
                  THEN <<ImageAlert(Get(w))>> ELSE <<>>
           segs == IF segment.widths /= <<>> THEN <<segment>> ELSE <<>>
       IN /\ frame' = Some(f)
          /\ width' = w
          /\ current_segment' = segment
          /\ alerts' = als
          /\ segments' = segs
          /\ result' = Some(AnalysisResult(segs, als))
    /\ video' = <<f.id>>
    /\ pc' = "done"
    /\ UNCHANGED <<config, outer, frame_count, prev_frame>>

(* analyze_image: cv2.imread returns None, ValueError *)
AnalyzeImageFail ==
    /\ pc = "start" /\ mode = "image"
    /\ ~IsOpened(source_ok)
    /\ pc' = "error"
    /\ UNCHANGED <<config, outer, frame_count, frame, prev_frame, width,
                   current_segment, segments, alerts, result, video>>

(* the caller keeps the result and analyses the same source again on the  *)
(* same analyzer: what the first call left behind is still in memory       *)
Rerun ==
    /\ pc = "done" /\ runs = 1
    /\ Len(video) <= MaxReplay
    /\ runs' = 2
    /\ first_result' = result
    /\ first_video' = video
    /\ result' = None
    /\ video' = <<>>
    /\ pc' = "start"
    /\ UNCHANGED <<config, other, stats, report, api, frame_count, frame,
                   prev_frame, width, current_segment, segments, alerts,
                   belt_edges>>

Next ==
    \/ StartVideo
    \/ StartVideoFail
    \/ \E f \in FrameSet : ReadFrame(f)
    \/ Measure
    \/ SeamCheck
    \/ EndOfStream
    \/ \E f \in ImageSet : AnalyzeImage(f)
    \/ AnalyzeImageFail

Spec == Init /\ [][Next]_vars

(* one analysis, then a second one of the same source on the same analyzer *)
NextRerun == Next \/ Rerun

SpecRerun == Init /\ [][NextRerun]_vars

----------------------------------------------------------------------------
(* Two video analyses in progress on one analyzer, their steps interleaved *)

\* the locals of an analysis that has not begun
Idle ==
    [pc |-> "start", frame_count |-> 0, frame |-> None, prev_frame |-> None,
     width |-> None, current_segment |-> SegmentMeasurement(0, 0, 0, <<>>),
     segments |-> <<>>, alerts |-> <<>>, result |-> None, video |-> <<>>]

\* the frames of the interleaved videos
ConcFrames == {f \in FrameSet : f.id \in {2, 3, 6}}

InitConc ==
    /\ mode = "video"
    /\ min_width_threshold = 50
    /\ max_width_threshold \in MaxWidthChoices
    /\ sample_rate \in 1..MaxRate
    /\ roi = None
    /\ source_ok = TRUE
    /\ pc = Idle.pc
    /\ frame_count = Idle.frame_count
    /\ frame = Idle.frame
    /\ prev_frame = Idle.prev_frame
    /\ width = Idle.width
    /\ current_segment = Idle.current_segment
    /\ segments = Idle.segments
    /\ alerts = Idle.alerts
    /\ result = Idle.result
    /\ video = Idle.video
    /\ runs = 1
    /\ first_result = None
    /\ first_video = <<>>
    /\ other = Some(Idle)
    /\ stats = None
    /\ report = None
    /\ belt_edges = None
    /\ analysis_results = <<>>
    /\ analysis_id = None
    /\ uploads = {}
    /\ response = None
    /\ deleted = {}

\* variant: prev_frame is one cell that both analyses read and write
ResumedPrevFrame_Shared(running, parked) == running

\* prev_frame is a local of the call: the resumed analysis finds its own
ResumedPrevFrame(running, parked) == parked

(* the running analysis is suspended between two of its steps and the      *)
(* other one resumes with its own locals                                   *)
Switch ==
    /\ other /= None
    /\ other' = Some(locals)
    /\ pc' = Get(other).pc
    /\ frame_count' = Get(other).frame_count
    /\ frame' = Get(other).frame
    /\ prev_frame' = ResumedPrevFrame(prev_frame, Get(other).prev_frame)
    /\ width' = Get(other).width
    /\ current_segment' = Get(other).current_segment
    /\ segments' = Get(other).segments
    /\ alerts' = Get(other).alerts
    /\ result' = Get(other).result
    /\ video' = Get(other).video
    /\ UNCHANGED <<config, runs, first_result, first_video, stats, report,
                   api,
                   belt_edges>>

NextConc ==
    \/ StartVideo
    \/ \E f \in ConcFrames : ReadFrame(f)
    \/ Measure
    \/ SeamCheck
    \/ EndOfStream
    \/ Switch

SpecConc == InitConc /\ [][NextConc]_vars

----------------------------------------------------------------------------
(* The statistics of a segment and the dictionary form of a result.  A     *)
(* real number is the pair <<p, q>> of the fraction p / q with q > 0;      *)
(* the doubles of the code are these fractions up to their rounding. A     *)
(* number rounded to two decimals is given in hundredths.                  *)

\* min(ws) of Python, for a non-empty list, read from position i on
RECURSIVE MinFrom(_, _)
MinFrom(ws, i) ==
    IF i = Len(ws) THEN ws[i]
    ELSE LET m == MinFrom(ws, i + 1) IN IF ws[i] <= m THEN ws[i] ELSE m

\* max(ws) of Python, for a non-empty list, read from position i on
RECURSIVE MaxFrom(_, _)
MaxFrom(ws, i) ==
    IF i = Len(ws) THEN ws[i]
    ELSE LET m == MaxFrom(ws, i + 1) IN IF ws[i] >= m THEN ws[i] ELSE m

\* sum(ws) of Python, from position i on
RECURSIVE SumFrom(_, _)
SumFrom(ws, i) == IF i > Len(ws) THEN 0 ELSE ws[i] + SumFrom(ws, i + 1)

(* SegmentMeasurement.min_width *)
min_width(seg) == IF seg.widths /= <<>> THEN MinFrom(seg.widths, 1) ELSE 0

(* SegmentMeasurement.max_width *)
max_width(seg) == IF seg.widths /= <<>> THEN MaxFrom(seg.widths, 1) ELSE 0

(* SegmentMeasurement.avg_width *)
avg_width(seg) ==
    IF seg.widths /= <<>>
    THEN <<SumFrom(seg.widths, 1), Len(seg.widths)>>
    ELSE <<0, 1>>

\* variant: the sample variance, divided by len - 1
width_variance_Sample(seg) ==
    IF Len(seg.widths) < 2 THEN <<0, 1>>
    ELSE LET avg == avg_width(seg)
             squares == [k \in 1..Len(seg.widths) |->
                            (seg.widths[k] * avg[2] - avg[1])
                                * (seg.widths[k] * avg[2] - avg[1])]
         IN <<SumFrom(squares, 1), avg[2] * avg[2] * (Len(seg.widths) - 1)>>

(* SegmentMeasurement.width_variance *)
width_variance(seg) ==
    IF Len(seg.widths) < 2 THEN <<0, 1>>
    ELSE LET avg == avg_width(seg)
             squares == [k \in 1..Len(seg.widths) |->
                            (seg.widths[k] * avg[2] - avg[1])
                                * (seg.widths[k] * avg[2] - avg[1])]
         IN <<SumFrom(squares, 1), avg[2] * avg[2] * Len(seg.widths)>>

\* round(x, 2) of a fraction x >= 0, in hundredths: the nearest one, the
\* even one when two are equally near
Round2(x) ==
    LET n == 100 * x[1]
        low == n \div x[2]
        rest == n % x[2]
    IN IF 2 * rest > x[2] THEN low + 1
       ELSE IF 2 * rest < x[2] THEN low
       ELSE IF low % 2 = 0 THEN low ELSE low + 1

\* variant: the measurements counted by the span of the frame range
to_dict_FrameSpan(r) ==
    [total_segments |-> Len(r.segments),
     segments |->
        [k \in 1..Len(r.segments) |->
            [segment_id |-> r.segments[k].segment_id,
             frame_start |-> r.segments[k].frame_start,
             frame_end |-> r.segments[k].frame_end,
             min_width_px |-> Round2(<<min_width(r.segments[k]), 1>>),
             max_width_px |-> Round2(<<max_width(r.segments[k]), 1>>),
             avg_width_px |-> Round2(avg_width(r.segments[k])),
             measurement_count |->
                r.segments[k].frame_end - r.segments[k].frame_start + 1]],
     alerts |-> r.alerts]

(* AnalysisResult.to_dict, without the fields of the source (file name,    *)
(* total_frames, fps, timestamp)                                           *)
to_dict(r) ==
    [total_segments |-> Len(r.segments),
     segments |->
        [k \in 1..Len(r.segments) |->
            [segment_id |-> r.segments[k].segment_id,
             frame_start |-> r.segments[k].frame_start,
             frame_end |-> r.segments[k].frame_end,
             min_width_px |-> Round2(<<min_width(r.segments[k]), 1>>),
             max_width_px |-> Round2(<<max_width(r.segments[k]), 1>>),
             avg_width_px |-> Round2(avg_width(r.segments[k])),
             measurement_count |-> Len(r.segments[k].widths)]],
     alerts |-> r.alerts]

\* the widths of the segments whose statistics are read
WidthValues == {1, 100, 150, 200}

\* the sequences over S of length n
SeqsOfLen(S, n) == [1..n -> S]

\* the width lists of the open segment: every list up to MaxWidths long
WidthLists == UNION {SeqsOfLen(WidthValues, n) : n \in 0..MaxWidths}

\* the width lists of the segment a seam closed before it
ClosedLists == {<<>>, <<150>>, <<100, 200>>}

\* the alerts after the measurement events of the frames 1..n, frame i
\* with the valid width ws[i]
RECURSIVE AlertsUpTo(_, _)
AlertsUpTo(ws, n) ==
    IF n = 0 THEN <<>>
    ELSE MeasuredAlerts(AlertsUpTo(ws, n - 1), Some(ws[n]), n)

\* the result of a video whose every frame has a valid width: the first
\* Len(a) frames are the widths a, a seam fires on the last of them, the
\* next Len(b) frames are the widths b
ResultOf(a, b) ==
    LET first == SegmentMeasurement(1, 0, Len(a), a)
        second == SegmentMeasurement(IF a = <<>> THEN 1 ELSE 2, Len(a),
                                     Len(a) + Len(b), b)
    IN AnalysisResult(
          (IF a /= <<>> THEN <<first>> ELSE <<>>)
             \o (IF b /= <<>> THEN <<second>> ELSE <<>>),
          AlertsUpTo(a \o b, Len(a \o b)))

(* a finished analysis with the default thresholds: its last segment is    *)
(* current_segment, its result is result                                   *)
InitStats ==
    /\ mode = "video"
    /\ min_width_threshold = 100
    /\ max_width_threshold = 2000
    /\ sample_rate = 1
    /\ roi = None
    /\ source_ok = TRUE
    /\ pc = "done"
    /\ frame_count \in {0}
    /\ frame = None
    /\ prev_frame = None
    /\ width = None
    /\ \E a \in ClosedLists, b \in WidthLists :
          /\ current_segment =
                SegmentMeasurement(IF a = <<>> THEN 1 ELSE 2, Len(a),
                                   Len(a) + Len(b), b)
          /\ result = Some(ResultOf(a, b))
          /\ segments = ResultOf(a, b).segments
          /\ alerts = ResultOf(a, b).alerts
    /\ video = <<>>
    /\ runs = 1
    /\ first_result = None
    /\ first_video = <<>>
    /\ other = None
    /\ stats = None
    /\ report = None
    /\ belt_edges = None
    /\ analysis_results = <<>>
    /\ analysis_id = None
    /\ uploads = {}
    /\ response = None
    /\ deleted = {}

(* the four statistics properties of current_segment are read *)
ReadStatistics ==
    /\ pc = "done" /\ stats = None
    /\ stats' = Some([min_width |-> min_width(current_segment),
                      max_width |-> max_width(current_segment),
                      avg_width |-> avg_width(current_segment),
                      width_variance |-> width_variance(current_segment)])
    /\ UNCHANGED <<config, runs, first_result, first_video, other, report,
                   api, pc, frame_count, frame, prev_frame, width, current_segment,
                   segments, alerts, result, video,
                   belt_edges>>

(* result.to_dict() *)
ToDict ==
    /\ pc = "done" /\ report = None
    /\ result /= None
    /\ report' = Some(to_dict(Get(result)))
    /\ UNCHANGED <<config, runs, first_result, first_video, other, stats,
                   api, pc, frame_count, frame, prev_frame, width, current_segment,
                   segments, alerts, result, video,
                   belt_edges>>

NextStats == ReadStatistics \/ ToDict

SpecStats == InitStats /\ [][NextStats]_vars

----------------------------------------------------------------------------
(* detect_belt_edges applied to binary masks of every column profile: the  *)
(* mask is drawn when the state is set up, one step applies the function.  *)

\* the heights of the masks: one row, four rows, and ten rows, where three
\* pixels of a column are exactly 30% of the height
MaskHeights == {1, 4, 10}

\* the mask of height h whose column x has counts[x] foreground pixels,
\* stacked from the last row up when bottom, from the first row down
\* otherwise
ColumnMask(h, counts, bottom) ==
    [y \in 0..(h - 1) |->
        [x \in DOMAIN counts |->
            IF (IF bottom THEN h - 1 - y ELSE y) < counts[x]
            THEN 255 ELSE 0]]

InitEdges ==
    /\ mode = "image"
    /\ min_width_threshold = 50
    /\ max_width_threshold \in MaxWidthChoices
    /\ sample_rate = 1
    /\ roi = None
    /\ source_ok = TRUE
    /\ pc = "start"
    /\ frame_count = Idle.frame_count
    /\ \E h \in MaskHeights, c \in 1..MaskCols :
          \E counts \in [0..(c - 1) -> 0..h], bottom \in BOOLEAN :
              frame = Some(Frame(0, ColumnMask(h, counts, bottom), 0, FALSE))
    /\ prev_frame = Idle.prev_frame
    /\ width = Idle.width
    /\ current_segment = Idle.current_segment
    /\ segments = Idle.segments
    /\ alerts = Idle.alerts
    /\ result = Idle.result
    /\ video = Idle.video
    /\ runs = 1
    /\ first_result = None
    /\ first_video = <<>>
    /\ other = None
    /\ stats = None
    /\ report = None
    /\ belt_edges = None
    /\ analysis_results = <<>>
    /\ analysis_id = None
    /\ uploads = {}
    /\ response = None
    /\ deleted = {}

(* left, right = self.detect_belt_edges(binary) *)
DetectEdges ==
    /\ pc = "start" /\ frame /= None /\ belt_edges = None
    /\ belt_edges' = Some(detect_belt_edges(Get(frame).mask))
    /\ pc' = "done"
    /\ UNCHANGED <<config, runs, first_result, first_video, other, stats,
                   report, api, frame_count, frame, prev_frame, width,
                   current_segment, segments, alerts, result, video>>

NextEdges == DetectEdges

SpecEdges == InitEdges /\ [][NextEdges]_vars

----------------------------------------------------------------------------
(* The REST service of src/app/api.py.  The handlers are coroutines        *)
(* without an await: the event loop runs one request to its end before     *)
(* the next.  The analyze handler spans several steps of the model (the    *)
(* steps of the analysis it calls); every other handler is one step and    *)
(* runs only when no analysis is in progress (pc = "idle").                *)

\* the strings datetime.now().strftime("%Y%m%d_%H%M%S_%f") returns: the
\* wall clock is read, its readings are not controlled by the service
Timestamps == 1..MaxClock

\* the ids a client asks for: 0 is an id no analysis was ever given
RequestIds == 0..MaxClock

\* the videos and images uploaded to the service
ApiFrames == {f \in FrameSet : f.id \in {2}}

ApiImages == {f \in ImageSet : f.id \in {11, 15}}

\* the kinds of report
ReportKinds == {"excel", "csv", "json"}

\* store[id] = r
Put(store, id, r) ==
    [i \in DOMAIN store \cup {id} |-> IF i = id THEN r ELSE store[i]]

\* del store[id]
Remove(store, id) == [i \in DOMAIN store \ {id} |-> store[i]]

Response(op, id, status, body) ==
    [op |-> op, id |-> id, status |-> status, body |-> body]

(* AlertResponse built from an alert dictionary: a.get("frame") *)
AlertResponse(a) ==
    [type |-> a.type,
     frame |-> IF "frame" \in DOMAIN a THEN Some(a.frame) ELSE None,
     message |-> a.message,
     severity |-> a.severity]

(* AnalysisResponse built from a result, without the fields of the source *)
AnalysisResponse(id, r) ==
    [analysis_id |-> id,
     total_segments |-> Len(r.segments),
     segments |-> to_dict(r).segments,
     alerts |-> [k \in 1..Len(r.alerts) |-> AlertResponse(r.alerts[k])]]

(* the service has started: nothing is stored, no request is handled *)
InitApi ==
    /\ mode = "video"
    /\ min_width_threshold = 50
    /\ max_width_threshold \in MaxWidthChoices
    /\ sample_rate = 1
    /\ roi = None
    /\ source_ok = TRUE
    /\ pc = "idle"
    /\ frame_count = Idle.frame_count
    /\ frame = Idle.frame
    /\ prev_frame = Idle.prev_frame
    /\ width = Idle.width
    /\ current_segment = Idle.current_segment
    /\ segments = Idle.segments
    /\ alerts = Idle.alerts
    /\ result = Idle.result
    /\ video = Idle.video
    /\ runs = 1
    /\ first_result = None
    /\ first_video = <<>>
    /\ other = None
    /\ stats = None
    /\ report = None
    /\ belt_edges = None
    /\ analysis_results = <<>>
    /\ analysis_id = None
    /\ uploads = {}
    /\ response = None
    /\ deleted = {}

(* POST /api/v1/analyze with a file name whose suffix is not allowed *)
AnalyzeRejected ==
    /\ pc = "idle"
    /\ response' = Some(Response("analyze", None, 400, None))
    /\ UNCHANGED <<config, runs, first_result, first_video, other, stats,
                   report, analysis_results, analysis_id, uploads, deleted,
                   pc, frame_count, frame, prev_frame, width, current_segment,
                   segments, alerts, result, video,
                   belt_edges>>

(* POST /api/v1/analyze, up to the call of the analyzer: the id is the     *)
(* clock reading t, the upload is saved under it, the analyzer is built    *)
(* from the query parameters; m is the kind of file, ok whether it can be  *)
(* opened                                                                  *)
AnalyzeBegin(t, m, rate, ok) ==
    /\ pc = "idle"
    /\ analysis_id' = Some(t)
    /\ uploads' = uploads \cup {t}
    /\ mode' = m
    /\ sample_rate' = rate
    /\ source_ok' = ok
    /\ pc' = "start"
    /\ frame_count' = Idle.frame_count
    /\ frame' = Idle.frame
    /\ prev_frame' = Idle.prev_frame
    /\ width' = Idle.width
    /\ current_segment' = Idle.current_segment
    /\ segments' = Idle.segments
    /\ alerts' = Idle.alerts
    /\ result' = Idle.result
    /\ video' = Idle.video
    /\ response' = None
    /\ UNCHANGED <<min_width_threshold, max_width_threshold, roi, runs,
                   first_result, first_video, other, stats, report,
                   analysis_results, deleted,
                   belt_edges>>

\* the analyze handler returns or raises: its analyzer, its arguments and
\* the locals of the analysis are gone
HandlerReturns ==
    /\ mode' = "video"
    /\ sample_rate' = 1
    /\ source_ok' = TRUE
    /\ pc' = "idle"
    /\ frame_count' = Idle.frame_count
    /\ frame' = Idle.frame
    /\ prev_frame' = Idle.prev_frame
    /\ width' = Idle.width
    /\ current_segment' = Idle.current_segment
    /\ segments' = Idle.segments
    /\ alerts' = Idle.alerts
    /\ result' = Idle.result
    /\ video' = Idle.video

\* variant: the saved upload is left on disk
Unlink_Kept(files, id) == files

\* finally: if file_path.exists(): file_path.unlink()
Unlink(files, id) == files \ {id}

(* POST /api/v1/analyze after the analyzer returned: the result is stored  *)
(* under the id, the response is built, the upload is removed              *)
AnalyzeStore ==
    /\ analysis_id /= None /\ pc = "done"
    /\ analysis_results' =
          Put(analysis_results, Get(analysis_id), Get(result))
    /\ response' =
          Some(Response("analyze", analysis_id, 200,
                        Some(AnalysisResponse(Get(analysis_id), Get(result)))))
    /\ uploads' = Unlink(uploads, Get(analysis_id))
    /\ analysis_id' = None
    /\ HandlerReturns
    /\ UNCHANGED <<min_width_threshold, max_width_threshold, roi, runs,
                   first_result, first_video, other, stats, report, deleted,
                   belt_edges>>

(* POST /api/v1/analyze after the analyzer raised: status 500, the upload  *)
(* is removed                                                              *)
AnalyzeFail ==
    /\ analysis_id /= None /\ pc \in {"error", "zero_division"}
    /\ response' = Some(Response("analyze", None, 500, None))
    /\ uploads' = Unlink(uploads, Get(analysis_id))
    /\ analysis_id' = None
    /\ HandlerReturns
    /\ UNCHANGED <<min_width_threshold, max_width_threshold, roi, runs,
                   first_result, first_video, other, stats, report,
                   analysis_results, deleted,
                   belt_edges>>

\* variant: reading a result drains its alerts
AfterRead_Drained(r) == [r EXCEPT !.alerts = <<>>]

\* a stored AnalysisResult after a handler, to_dict or a report generator
\* read it: its fields, its segments' properties and its alerts are read,
\* none is assigned
AfterRead(r) == r

(* GET /api/v1/results/{id} *)
GetResult(id) ==
    /\ pc = "idle"
    /\ response' =
          IF id \notin DOMAIN analysis_results
          THEN Some(Response("get", Some(id), 404, None))
          ELSE Some(Response("get", Some(id), 200,
                             Some(AnalysisResponse(id, analysis_results[id]))))
    /\ analysis_results' =
          IF id \notin DOMAIN analysis_results THEN analysis_results
          ELSE [analysis_results EXCEPT ![id] = AfterRead(@)]
    /\ UNCHANGED <<config, runs, first_result, first_video, other, stats,
                   report, analysis_id, uploads, deleted, pc, frame_count,
                   frame, prev_frame, width, current_segment, segments,
                   alerts, result, video,
                   belt_edges>>

(* GET /api/v1/results *)
ListResults ==
    /\ pc = "idle"
    /\ response' =
          Some(Response("list", None, 200,
                        Some([count |-> Cardinality(DOMAIN analysis_results),
                              analyses |-> DOMAIN analysis_results])))
    /\ analysis_results' =
          [i \in DOMAIN analysis_results |-> AfterRead(analysis_results[i])]
    /\ UNCHANGED <<config, runs, first_result, first_video, other, stats,
                   report, analysis_id, uploads, deleted, pc, frame_count,
                   frame, prev_frame, width, current_segment, segments,
                   alerts, result, video,
                   belt_edges>>

(* GET /api/v1/reports/{id}/excel, /csv and /json *)
GetReport(id, kind) ==
    /\ pc = "idle"
    /\ response' =
          IF id \notin DOMAIN analysis_results
          THEN Some(Response(kind, Some(id), 404, None))
          ELSE Some(Response(kind, Some(id), 200,
                             IF kind = "json"
                             THEN Some(to_dict(analysis_results[id]))
                             ELSE Some([file |-> <<kind, id>>])))
    /\ analysis_results' =
          IF id \notin DOMAIN analysis_results THEN analysis_results
          ELSE [analysis_results EXCEPT ![id] = AfterRead(@)]
    /\ UNCHANGED <<config, runs, first_result, first_video, other, stats,
                   report, analysis_id, uploads, deleted, pc, frame_count,
                   frame, prev_frame, width, current_segment, segments,
                   alerts, result, video,
                   belt_edges>>

\* variant: deleting an id that is not stored succeeds
DeleteStatus_Idempotent(store, id) == 200

\* the status of DELETE /api/v1/results/{id}
DeleteStatus(store, id) == IF id \notin DOMAIN store THEN 404 ELSE 200

(* DELETE /api/v1/results/{id} *)
DeleteResult(id) ==
    /\ pc = "idle"
    /\ response' = Some(Response("delete", Some(id),
                                 DeleteStatus(analysis_results, id), None))
    /\ analysis_results' =
          IF id \notin DOMAIN analysis_results THEN analysis_results
          ELSE Remove(analysis_results, id)
    /\ deleted' =
          IF id \notin DOMAIN analysis_results THEN deleted
          ELSE deleted \cup {id}
    /\ UNCHANGED <<config, runs, first_result, first_video, other, stats,
                   report, analysis_id, uploads, pc, frame_count, frame,
                   prev_frame, width, current_segment, segments, alerts,
                   result, video,
                   belt_edges>>

NextApi ==
    \/ AnalyzeRejected
    \/ \E t \in Timestamps, m \in {"video", "image"}, rate \in {0, 1},
          ok \in BOOLEAN :
            /\ (m = "image" => rate = 1)
            /\ AnalyzeBegin(t, m, rate, ok)
    \/ StartVideo
    \/ StartVideoFail
    \/ \E f \in ApiFrames : ReadFrame(f)
    \/ Measure
    \/ SeamCheck
    \/ EndOfStream
    \/ \E f \in ApiImages : AnalyzeImage(f)
    \/ AnalyzeImageFail
    \/ AnalyzeStore
    \/ AnalyzeFail
    \/ \E id \in RequestIds : GetResult(id)
    \/ ListResults
    \/ \E id \in RequestIds, kind \in ReportKinds : GetReport(id, kind)
    \/ \E id \in RequestIds : DeleteResult(id)

SpecApi == InitApi /\ [][NextApi]_vars

----------------------------------------------------------------------------
(* The run read back from the history of decoded frames *)

\* the frame counters of the sampled frames decoded so far
SampledFrames ==
    {i \in 1..Len(video) : sample_rate /= 0 /\ PyMod(i, sample_rate) = 0}

\* the width measured on decoded frame i
MeasureAt(i) == measure_width(RoiFrame(FrameById(video[i])))

\* whether the seam detector fires on sampled frame i
SeamAt(i) ==
    /\ i - Abs(sample_rate) >= 1
    /\ detect_seam(RoiFrame(FrameById(video[i])),
                   Some(RoiFrame(FrameById(video[i - Abs(sample_rate)]))))

\* the valid measurements of the sampled frames i..Len(video), in order
RECURSIVE ValidFrom(_)
ValidFrom(i) ==
    IF i > Len(video) THEN <<>>
    ELSE IF i \in SampledFrames /\ MeasureAt(i) /= None
         THEN <<Get(MeasureAt(i))>> \o ValidFrom(i + 1)
         ELSE ValidFrom(i + 1)

ValidMeasurements == ValidFrom(1)

SetMax(S) == CHOOSE m \in S : \A x \in S : x <= m

\* the last frame has gone through its measurement and seam events
FrameProcessed ==
    /\ mode = "video" /\ pc = "read"
    /\ frame_count >= 1 /\ frame_count \in SampledFrames

\* the argument of the last measure_width call
MeasuredFrame ==
    IF mode = "video" THEN RoiFrame(Get(frame)) ELSE Get(frame)

NonEmptyWidths(segs) == \A k \in 1..Len(segs) : segs[k].widths /= <<>>

----------------------------------------------------------------------------
(* C1: in every state of a video or image analysis, and in the returned    *)
(* result, every segment of the segment list has at least one width.       *)
C1_SegmentsNonEmpty ==
    /\ NonEmptyWidths(segments)
    /\ result /= None => NonEmptyWidths(Get(result).segments)

\* a seam has just closed a segment without measurements: it was dropped
C1_Witness ==
    /\ FrameProcessed
    /\ SeamAt(frame_count)
    /\ \A i \in SampledFrames : MeasureAt(i) = None
    /\ segments = <<>>
    /\ current_segment.frame_start = frame_count

(* C2: when the seam detector fires at sampled frame F, the open segment   *)
(* is closed (appended iff its widths are non-empty) and the open segment  *)
(* becomes a new one with empty widths, frame_start = frame_end = F and    *)
(* id = (number of segments appended so far) + 1.                          *)
C2_SeamOpensNewSegment ==
    [][(pc = "seam" /\ pc' = "read" /\ detect_seam(Get(frame), prev_frame))
        => /\ segments' = IF current_segment.widths /= <<>>
                          THEN segments \o <<current_segment>>
                          ELSE segments
           /\ current_segment' =
                 [segment_id |-> Len(segments') + 1,
                  frame_start |-> frame_count,
                  frame_end |-> frame_count,
                  widths |-> <<>>]]_vars

\* a seam at the last frame appended a second segment and opened a third
C2_Witness ==
    /\ FrameProcessed
    /\ SeamAt(frame_count)
    /\ Len(segments) = 2
    /\ current_segment.segment_id = 3
    /\ current_segment.frame_start = frame_count

(* C3 as stated, already for N >= 1: without seams, the result is exactly *)
(* one segment with id 1, frame_start 0, frame_end the index of the last   *)
(* sampled frame, and the N valid measurements in sampling order.          *)
NoSeamFired == \A i \in SampledFrames : ~SeamAt(i)

C3_Original ==
    (mode = "video" /\ pc = "done" /\ NoSeamFired
        /\ Len(ValidMeasurements) >= 1)
        => Get(result).segments =
              << [segment_id |-> 1, frame_start |-> 0,
                  frame_end |-> SetMax(SampledFrames),
                  widths |-> ValidMeasurements] >>

(* C3 as amended: without seams and with N >= 1 valid measurements the     *)
(* result is exactly one segment with id 1, frame_start 0, frame_end the   *)
(* index of the last sampled frame that yielded a valid measurement, and   *)
(* the N measurements in sampling order; with N = 0 it has no segment.     *)
C3_Amended ==
    (mode = "video" /\ pc = "done" /\ NoSeamFired)
        => IF ValidMeasurements = <<>>
           THEN Get(result).segments = <<>>
           ELSE Get(result).segments =
                  << [segment_id |-> 1, frame_start |-> 0,
                      frame_end |->
                          SetMax({i \in SampledFrames : MeasureAt(i) /= None}),
                      widths |-> ValidMeasurements] >>

\* no seam, three measurements, and a last sampled frame without one
C3_Witness ==
    /\ mode = "video" /\ pc = "done" /\ NoSeamFired
    /\ Len(ValidMeasurements) = 3
    /\ MeasureAt(SetMax(SampledFrames)) = None

(* C4: measure_width returns |right - left| when it lies in [min, max],    *)
(* both bounds included, absent when it is below min or above max, and     *)
(* absent when an edge is undetected.                                      *)
C4_MeasureWidth ==
    (pc = "seam" \/ (mode = "image" /\ pc = "done"))
        => LET edges == detect_belt_edges(preprocess_frame(MeasuredFrame))
               left == edges[1]
               right == edges[2]
               w == IF Get(right) >= Get(left)
                    THEN Get(right) - Get(left) ELSE Get(left) - Get(right)
           IN IF left = None \/ right = None
              THEN width = None
              ELSE /\ (min_width_threshold <= w /\ w <= max_width_threshold)
                        => width = <<w>>
                   /\ (w < min_width_threshold \/ w > max_width_threshold)
                        => width = None

\* a frame was measured at exactly the maximum width
C4_Witness ==
    /\ pc = "seam"
    /\ width = <<max_width_threshold>>

(* C5 as stated: a valid measurement w below 1.1 x minWidthThreshold       *)
(* appends exactly one width_warning alert of severity warning for the     *)
(* frame and is still recorded; a valid w >= 1.1 x minWidthThreshold       *)
(* appends no alert.                                                       *)
C5_Claim ==
    [][(pc = "measure" /\ pc' = "seam" /\ width' /= None)
        => LET w == Get(width')
           IN /\ current_segment'.widths = current_segment.widths \o <<w>>
              /\ IF 10 * w < 11 * min_width_threshold
                 THEN /\ Len(alerts') = Len(alerts) + 1
                      /\ SubSeq(alerts', 1, Len(alerts)) = alerts
                      /\ alerts'[Len(alerts')].type = "width_warning"
                      /\ alerts'[Len(alerts')].severity = "warning"
                      /\ alerts'[Len(alerts')].frame = frame_count
                 ELSE alerts' = alerts]_vars

(* C6: the measurement event of a frame without a measurement leaves the   *)
(* open segment, the appended segments and the alerts unchanged.           *)
C6_AbsentChangesNothing ==
    [][(pc = "measure" /\ pc' = "seam" /\ width' = None)
        => /\ current_segment' = current_segment
           /\ segments' = segments
           /\ alerts' = alerts]_vars

\* a frame without a measurement came after measurements and alerts
C6_Witness ==
    /\ pc = "seam"
    /\ width = None
    /\ current_segment.widths /= <<>>
    /\ alerts /= <<>>

(* C7 as stated: analyze_image returns exactly one segment (id 1, frames   *)
(* 0..0, the single width) iff measure_width returned a width, whatever    *)
(* its value, and none otherwise; at most one alert, none when absent.     *)
C7_Claim ==
    (mode = "image" /\ pc = "done")
        => LET w == measure_width(Get(frame))
               r == Get(result)
           IN /\ IF w /= None
                 THEN r.segments = << [segment_id |-> 1, frame_start |-> 0,
                                       frame_end |-> 0, widths |-> w] >>
                 ELSE r.segments = <<>>
              /\ Len(r.alerts) <= 1
              /\ w = None => r.alerts = <<>>

(* C8: after the source is exhausted the last open segment is in the       *)
(* returned list exactly once if it has a measurement, and not at all      *)
(* otherwise.                                                              *)
C8_LastSegmentOnce ==
    (mode = "video" /\ pc = "done")
        => LET segs == Get(result).segments
               copies == {k \in 1..Len(segs) : segs[k] = current_segment}
           IN Cardinality(copies) =
                 IF current_segment.widths /= <<>> THEN 1 ELSE 0

\* no segment was appended in the loop and the last one has measurements
C8_Witness ==
    /\ mode = "video" /\ pc = "done"
    /\ NoSeamFired
    /\ current_segment.widths /= <<>>
    /\ Len(Get(result).segments) = 1

(* C9: the k-th segment of the list has segment_id = k, also after seams   *)
(* that closed a segment without measurements.                             *)
SequentialIds(segs) == \A k \in 1..Len(segs) : segs[k].segment_id = k

C9_SequentialIds ==
    /\ SequentialIds(segments)
    /\ result /= None => SequentialIds(Get(result).segments)

\* two segments returned after a seam had closed an empty first segment
C9_Witness ==
    /\ mode = "video" /\ pc = "done"
    /\ Len(Get(result).segments) = 2
    /\ \E i \in SampledFrames :
          /\ SeamAt(i)
          /\ \A j \in SampledFrames : j <= i => MeasureAt(j) = None

(* C10: every decoded frame advances the 1-based frame counter by one; the *)
(* measurement and seam events run exactly on the frames whose counter is  *)
(* a multiple of the sample rate, and any other frame changes neither the  *)
(* open segment, the segment list, the alerts nor the previous frame.      *)
C10_Sampling ==
    [][sample_rate >= 1 =>
       /\ (mode = "video" /\ video' /= video)
            => /\ frame_count' = frame_count + 1
               /\ frame_count' = Len(video')
               /\ IF frame_count' % sample_rate = 0
                  THEN pc' = "measure"
                  ELSE /\ pc' = "read"
                       /\ current_segment' = current_segment
                       /\ segments' = segments
                       /\ alerts' = alerts
                       /\ prev_frame' = prev_frame
       /\ pc' \in {"measure", "seam"}
            => /\ frame_count' >= 1
               /\ frame_count' % sample_rate = 0]_vars

\* with sample rate 2, frame 2 was measured and frame 3 skipped
C10_Witness ==
    /\ mode = "video" /\ pc = "read"
    /\ sample_rate = 2
    /\ frame_count = 3
    /\ current_segment.widths /= <<>>
    /\ prev_frame = <<FrameById(video[2])>>

(* C11: when the video source cannot be opened (analyze_video) or the     *)
(* image cannot be decoded (analyze_image), the run ends in the fatal       *)
(* error, returns no AnalysisResult, and no segment or alert has been       *)
(* created before the error is raised.                                      *)
C11_FatalSourceError ==
    /\ (~source_ok /\ pc /= "start")
          => /\ pc = "error"
             /\ result = None
             /\ segments = <<>>
             /\ alerts = <<>>
             /\ current_segment = SegmentMeasurement(0, 0, 0, <<>>)
             /\ video = <<>>
    /\ pc = "error" => ~source_ok

\* a video analysis has ended in the fatal source error
C11_Witness ==
    /\ mode = "video" /\ pc = "error"
    /\ ~source_ok

----------------------------------------------------------------------------
(* The result a sequence of decoded frames produces, stated from the       *)
(* frames alone: the seams cut the sampled frames into groups, a group     *)
(* ends with the frame its seam fires on, and the groups with a valid      *)
(* measurement are the segments.                                           *)

\* the measurement of every decoded frame: None for a frame not sampled
\* and for a frame without a valid width
Measurements ==
    [i \in 1..Len(video) |->
        IF i \in SampledFrames THEN MeasureAt(i) ELSE None]

\* the sampled frames the seam detector fires on
Seams == {i \in SampledFrames : SeamAt(i)}

\* the frames with a valid measurement between start s and the next seam
\* of T, that seam's frame included; W the measurements
ValidIn(W, T, s) ==
    {i \in DOMAIN W :
        /\ s < i
        /\ \A t \in T : s < t => i <= t
        /\ W[i] /= None}

\* the k-th smallest element of a set of integers
Nth(S, k) == CHOOSE x \in S : Cardinality({y \in S : y < x}) = k - 1

\* the segments of the measurements W cut at the seams T: a segment is
\* opened at frame 0 and at every seam, and kept when it has a width
SegmentsOf(W, T) ==
    LET nonEmpty == {s \in {0} \cup T : ValidIn(W, T, s) /= {}}
    IN [k \in 1..Cardinality(nonEmpty) |->
           LET s == Nth(nonEmpty, k)
               valid == ValidIn(W, T, s)
           IN [segment_id |-> k,
               frame_start |-> s,
               frame_end |-> SetMax(valid),
               widths |-> [n \in 1..Cardinality(valid) |->
                               Get(W[Nth(valid, n)])]]]

\* the width warnings of the measurements W, in frame order
AlertsOf(W) ==
    LET warned == {i \in DOMAIN W :
                      /\ W[i] /= None
                      /\ BelowWarnLimit(Get(W[i]), min_width_threshold)}
    IN [n \in 1..Cardinality(warned) |->
           [type |-> "width_warning", frame |-> Nth(warned, n),
            message |-> Get(W[Nth(warned, n)]), severity |-> "warning"]]

ExpectedSegments == SegmentsOf(Measurements, Seams)

ExpectedAlerts == AlertsOf(Measurements)

(* C12: a frame read that fails after k frames were decoded ends the       *)
(* video analysis without an error: the run returns the result the first   *)
(* k frames alone produce, with the open segment appended when it has      *)
(* measurements and with every alert raised so far.                        *)
C12_ReadFailureEndsStream ==
    /\ [](mode = "video" /\ pc = "done"
             => /\ result /= None
                /\ Get(result).segments = ExpectedSegments
                /\ Get(result).alerts = ExpectedAlerts
                /\ Get(result).alerts = alerts)
    /\ [][pc = "read" /\ video' = video /\ pc' /= "read"
             => /\ pc' = "done"
                /\ Get(result').segments =
                      IF current_segment.widths /= <<>>
                      THEN Append(segments, current_segment) ELSE segments]_vars

\* the read failed after three frames: one segment was closed by a seam,
\* the open one had a measurement, an alert had been raised
C12_Witness ==
    /\ mode = "video" /\ pc = "done"
    /\ Len(video) = 3 /\ MaxFrames > 3
    /\ Len(Get(result).segments) = 2
    /\ current_segment.segment_id = 2
    /\ current_segment.widths /= <<>>
    /\ alerts /= <<>>

(* C13 as stated: once the source is opened, a video analysis without a   *)
(* region of interest ends by returning an AnalysisResult for every        *)
(* integer sample rate, 0 and the negative ones included: no run ends in   *)
(* a failure other than the fatal source error.                            *)
C13_Claim ==
    (mode = "video" /\ roi = None /\ source_ok)
        => pc \in {"start", "read", "measure", "seam", "done"}

\* the validated width of a binary mask: None without both edges or
\* outside [min, max]
WidthOfMask(binary) ==
    LET edges == detect_belt_edges(binary)
    IN IF edges[1] = None \/ edges[2] = None THEN None
       ELSE LET w == Abs(Get(edges[2]) - Get(edges[1]))
            IN IF min_width_threshold <= w /\ w <= max_width_threshold
               THEN Some(w) ELSE None

(* C14 as stated: with a region of interest (x, y, w, h) the width of a    *)
(* video frame is measured on exactly the rectangle [x, x+w) x [y, y+h)    *)
(* of the source frame, the region the seam detector is given: the crop    *)
(* is applied once, also when x or y is not 0.                             *)
C14_Claim ==
    (mode = "video" /\ roi /= None)
        => /\ pc = "seam"
                => width = WidthOfMask(CropMask(Get(frame).mask, Get(roi)))
           /\ (pc = "read" /\ prev_frame /= None)
                => Get(prev_frame).mask =
                      CropMask(FrameById(Get(prev_frame).id).mask, Get(roi))

(* C15: a second analysis of the same frames under the same                *)
(* configuration, run on the same analyzer after the first, returns the    *)
(* same segments (ids, frame boundaries, widths) and the same alerts:      *)
(* nothing the first run left behind reaches the second.                   *)
C15_RepeatedRunSameResult ==
    (runs = 2 /\ pc = "done")
        => /\ video = first_video
           /\ result = first_result

\* the second run of a video returned two segments and an alert
C15_Witness ==
    /\ runs = 2 /\ pc = "done"
    /\ mode = "video"
    /\ Len(Get(result).segments) = 2
    /\ Get(result).alerts /= <<>>
    /\ Get(first_result).alerts /= <<>>

(* C16: when the steps of two analyses interleave in any order, each       *)
(* returns the result its own frames produce when analysed alone; a step   *)
(* of one analysis leaves the locals of the other untouched, and no step   *)
(* writes a configuration field of the analyzer.                           *)
C16_InterleavedRunsIndependent ==
    /\ []((other /= None /\ pc = "done")
             => /\ Get(result).segments = ExpectedSegments
                /\ Get(result).alerts = ExpectedAlerts)
    /\ [][/\ config' = config
          /\ other' /= other
                => /\ other' = Some(locals)
                   /\ locals' = Get(other)]_vars

\* both analyses are between the steps of their second frame, and each
\* holds its own previous frame
C16_Witness ==
    /\ other /= None
    /\ pc = "measure" /\ frame_count = 2
    /\ Get(other).pc = "seam" /\ Get(other).frame_count = 2
    /\ prev_frame /= None /\ Get(other).prev_frame /= None
    /\ prev_frame /= Get(other).prev_frame

\* the sum of the squares of a list of integers
SumOfSquares(ws) == SumFrom([k \in 1..Len(ws) |-> ws[k] * ws[k]], 1)

\* the elements of a sequence
Elements(ws) == {ws[k] : k \in 1..Len(ws)}

(* C17: min_width, max_width, avg_width and width_variance of a segment    *)
(* are the least element, the greatest element, the arithmetic mean and    *)
(* the population variance of its widths, all four 0 for an empty list;    *)
(* for the widths 100, 150, 200 they are 100, 200, 150 and 1666.67 to two  *)
(* decimals.                                                               *)
C17_SegmentStatistics ==
    stats /= None =>
        LET ws == current_segment.widths
            n == Len(ws)
            S == SumFrom(ws, 1)
            st == Get(stats)
        IN /\ n = 0 => /\ st.min_width = 0
                       /\ st.max_width = 0
                       /\ st.avg_width[1] = 0
                       /\ st.width_variance[1] = 0
           /\ n > 0 =>
                /\ st.min_width \in Elements(ws)
                /\ \A w \in Elements(ws) : st.min_width <= w
                /\ st.max_width \in Elements(ws)
                /\ \A w \in Elements(ws) : w <= st.max_width
                /\ st.avg_width[1] * n = S * st.avg_width[2]
                /\ st.width_variance[1] * n * n
                      = (n * SumOfSquares(ws) - S * S) * st.width_variance[2]
           /\ ws = <<100, 150, 200>> =>
                /\ st.min_width = 100
                /\ st.max_width = 200
                /\ st.avg_width[1] = 150 * st.avg_width[2]
                /\ Round2(st.width_variance) = 166667

\* the statistics of the widths 100, 150, 200 have been read
C17_Witness ==
    /\ stats /= None
    /\ current_segment.widths = <<100, 150, 200>>

(* C18: the dictionary of a result has total_segments equal to the number  *)
(* of its segments and one entry per segment, in the order of the list,    *)
(* with the segment's id and frame range and with measurement_count equal  *)
(* to the number of its widths.                                            *)
C18_ToDict ==
    report /= None =>
        LET d == Get(report)
            segs == Get(result).segments
        IN /\ d.total_segments = Len(segs)
           /\ Len(d.segments) = Len(segs)
           /\ \A k \in 1..Len(segs) :
                /\ d.segments[k].segment_id = segs[k].segment_id
                /\ d.segments[k].frame_start = segs[k].frame_start
                /\ d.segments[k].frame_end = segs[k].frame_end
                /\ d.segments[k].measurement_count = Len(segs[k].widths)

\* the dictionary of a result with two segments, one of two widths over
\* the frames 0..2, one of three widths
C18_Witness ==
    /\ report /= None
    /\ Get(report).total_segments = 2
    /\ Get(report).segments[1].measurement_count = 2
    /\ Get(report).segments[1].frame_start = 0
    /\ Get(report).segments[1].frame_end = 2
    /\ Get(report).segments[2].measurement_count = 3

\* the endpoints that name one analysis
ByIdOps == {"get", "delete"} \cup ReportKinds

(* C19 as stated: after any sequence of requests, a result stored by a     *)
(* successful analyze is what GET /api/v1/results/{id} returns for its id  *)
(* until a DELETE for that id succeeds; from then on the get, delete and   *)
(* report endpoints answer 404 for the id; the count of GET                *)
(* /api/v1/results is the number of stored results.                        *)
C19_Claim ==
    /\ [](response /= None =>
            LET r == Get(response)
            IN /\ (r.op = "get" /\ Get(r.id) \in DOMAIN analysis_results)
                    => /\ r.status = 200
                       /\ r.body = Some(AnalysisResponse(Get(r.id),
                                            analysis_results[Get(r.id)]))
               /\ r.op = "list"
                    => Get(r.body).count
                          = Cardinality(DOMAIN analysis_results))
    /\ [][/\ \A id \in DOMAIN analysis_results :
                \/ /\ id \in DOMAIN analysis_results'
                   /\ analysis_results'[id] = analysis_results[id]
                \/ /\ id \notin DOMAIN analysis_results'
                   /\ response' = Some(Response("delete", Some(id), 200, None))
          /\ \A id \in deleted :
                (/\ response' /= response
                 /\ response' /= None
                 /\ Get(response').op \in ByIdOps
                 /\ Get(response').id = Some(id))
                    => Get(response').status = 404]_vars

(* C20: a get, delete or report request for an analysis_id that is not    *)
(* in the store is answered 404 and leaves the store as it was.            *)
C20_AbsentIdNotFound ==
    [][(/\ pc = "idle" /\ pc' = "idle"
        /\ response' /= None
        /\ Get(response').op \in ByIdOps
        /\ Get(Get(response').id) \notin DOMAIN analysis_results)
            => /\ Get(response').status = 404
               /\ analysis_results' = analysis_results]_vars

\* a DELETE for an id that is not stored was answered 404 while another
\* result is stored
C20_Witness ==
    /\ response /= None
    /\ Get(response).op = "delete"
    /\ Get(response).status = 404
    /\ DOMAIN analysis_results /= {}
    /\ Get(Get(response).id) \notin DOMAIN analysis_results


\* an analyze request is being handled and its analyzer has not returned
\* a result
InPipeline == analysis_id /= None /\ pc /= "done"

(* C21: an analyze request whose analysis raised is answered with status   *)
(* 500, adds no entry to analysis_results at any of its steps, and its     *)
(* saved upload is removed; the saved upload is removed after a            *)
(* successful analysis as well, so no upload is left between requests.     *)
C21_FailedAnalyzeCleansUp ==
    /\ [](/\ analysis_id /= None => Get(analysis_id) \in uploads
          /\ analysis_id = None => uploads = {})
    /\ [][/\ InPipeline => analysis_results' = analysis_results
          /\ (analysis_id /= None /\ pc \in {"error", "zero_division"})
                => /\ response' = Some(Response("analyze", None, 500, None))
                   /\ analysis_id' = None
                   /\ Get(analysis_id) \notin uploads'
          /\ (analysis_id /= None /\ pc = "done")
                => /\ Get(response').status = 200
                   /\ Get(analysis_id) \in DOMAIN analysis_results'
                   /\ Get(analysis_id) \notin uploads']_vars

\* an analyze request was answered 500 while an earlier result is stored,
\* and no upload is left
C21_Witness ==
    /\ pc = "idle"
    /\ response = Some(Response("analyze", None, 500, None))
    /\ DOMAIN analysis_results /= {}
    /\ uploads = {}


\* the operations that read stored results
ReadOps == {"get", "list"} \cup ReportKinds

(* C22: no get, list or report request changes a stored result: after     *)
(* any such request every stored AnalysisResult has the segments, widths,  *)
(* frame bounds and alerts it had before, so what to_dict gives for it is  *)
(* the same before and after, and so is the answer of a get for it.        *)
C22_ReadsLeaveResults ==
    [][(/\ pc = "idle" /\ pc' = "idle"
        /\ response' /= None
        /\ Get(response').op \in ReadOps)
            => /\ DOMAIN analysis_results' = DOMAIN analysis_results
               /\ \A id \in DOMAIN analysis_results :
                     /\ analysis_results'[id].segments
                           = analysis_results[id].segments
                     /\ analysis_results'[id].alerts
                           = analysis_results[id].alerts
                     /\ to_dict(analysis_results'[id])
                           = to_dict(analysis_results[id])
                     /\ AnalysisResponse(id, analysis_results'[id])
                           = AnalysisResponse(id, analysis_results[id])]_vars

\* a get was answered with a stored result that has a measured segment and
\* an alert
C22_Witness ==
    /\ pc = "idle"
    /\ response /= None
    /\ Get(response).op = "get"
    /\ Get(response).status = 200
    /\ LET r == analysis_results[Get(Get(response).id)]
       IN /\ Len(r.segments) > 0
          /\ Len(r.segments[1].widths) > 0
          /\ Len(r.alerts) > 0
          /\ Get(Get(response).body).alerts
                = [k \in 1..Len(r.alerts) |-> AlertResponse(r.alerts[k])]


\* the sampled frames whose seam event has happened
SeamChecked ==
    {i \in SampledFrames : i < frame_count \/ (i = frame_count /\ pc = "read")}

(* C23: in analyze_video the frame a sampled frame is compared with is the *)
(* sampled frame just before it, whatever that frame measured and whether  *)
(* or not a seam fired on it, and never a skipped frame; on the first      *)
(* sampled frame there is no such frame, no seam fires and no segment is   *)
(* closed or opened.                                                       *)
C23_SeamAgainstPreviousSampled ==
    /\ []((mode = "video" /\ pc \in {"read", "measure", "seam"})
            => prev_frame =
                 IF SeamChecked = {} THEN None
                 ELSE Some(RoiFrame(FrameById(video[SetMax(SeamChecked)]))))
    /\ [][(mode = "video" /\ pc = "seam")
            => /\ (current_segment' /= current_segment)
                     = SeamAt(frame_count)
               /\ SeamChecked = {}
                     => /\ segments' = segments
                        /\ current_segment' = current_segment
                        /\ current_segment.segment_id = 1]_vars

\* with every second frame sampled, a seam fired on frame 4, which differs
\* from sampled frame 2 (no belt, no measurement) and equals skipped frame 3
C23_Witness ==
    /\ mode = "video" /\ pc = "read"
    /\ sample_rate = 2
    /\ frame_count = 4
    /\ video[2] = 1 /\ video[3] = 3 /\ video[4] = 3
    /\ current_segment.frame_start = 4


\* the sampled frames whose measurement event has happened
MeasuredFrames ==
    {i \in SampledFrames :
        i < frame_count \/ (i = frame_count /\ pc \in {"seam", "read"})}

\* the valid ones among the measurements W of the frames of S, in frame
\* order
WidthsIn(W, S) ==
    LET valid == {i \in S : W[i] /= None}
    IN [n \in 1..Cardinality(valid) |-> Get(W[Nth(valid, n)])]

\* the valid measurements of the frames of S, in frame order
WidthsOf(S) == WidthsIn([i \in S |-> MeasureAt(i)], S)

(* C24: when the measurement of sampled frame F is valid and the seam      *)
(* detector fires on F, the width of F is the last width of the segment    *)
(* the seam closes, that segment's frame_end is F, and a width_warning of  *)
(* F is already in the alerts; the segment opened at F has no widths, and  *)
(* later holds exactly the valid measurements of the sampled frames after  *)
(* F.                                                                      *)
C24_MeasurementBeforeSeam ==
    /\ []((mode = "video" /\ pc \in {"read", "measure", "seam"}
            /\ current_segment.frame_start >= 1)
            => current_segment.widths =
                 WidthsOf({i \in MeasuredFrames :
                              i > current_segment.frame_start}))
    /\ [][(mode = "video" /\ pc = "seam" /\ width /= None
           /\ SeamAt(frame_count))
            => /\ segments' = Append(segments, current_segment)
               /\ Last(current_segment.widths) = Get(width)
               /\ current_segment.frame_end = frame_count
               /\ BelowWarnLimit(Get(width), min_width_threshold)
                     => /\ alerts /= <<>>
                        /\ Last(alerts) = VideoAlert(frame_count, Get(width))
               /\ alerts' = alerts
               /\ current_segment' =
                     SegmentMeasurement(Len(segments') + 1, frame_count,
                                        frame_count, <<>>)]_vars

\* a seam fired on a frame with a narrow belt: the closed segment ends with
\* that width at that frame, its warning is the last alert, and the segment
\* opened there has received the width of a later frame
C24_Witness ==
    /\ mode = "video" /\ pc = "read"
    /\ segments /= <<>>
    /\ Len(Last(segments).widths) >= 2
    /\ Last(segments).frame_end = current_segment.frame_start
    /\ alerts /= <<>>
    /\ Last(alerts).frame = current_segment.frame_start
    /\ Last(alerts).message = Last(Last(segments).widths)
    /\ frame_count > current_segment.frame_start
    /\ Len(current_segment.widths) = 1


(* C25: in the result of analyze_video every segment's frame_end is the    *)
(* sampled frame that gave the segment's last measurement, frame_start is  *)
(* at most frame_end, and the widths of the segment are the valid          *)
(* measurements of the sampled frames after frame_start and up to          *)
(* frame_end, so each was taken within [frame_start, frame_end].           *)
C25_SegmentFrameBounds ==
    (mode = "video" /\ pc = "done" /\ result /= None)
        => LET W == Measurements
           IN \A k \in 1..Len(Get(result).segments) :
                 LET g == Get(result).segments[k]
                 IN /\ g.frame_end \in SampledFrames
                    /\ W[g.frame_end] /= None
                    /\ Last(g.widths) = Get(W[g.frame_end])
                    /\ g.frame_start <= g.frame_end
                    /\ g.widths =
                          WidthsIn(W, {i \in SampledFrames :
                                         /\ g.frame_start < i
                                         /\ i <= g.frame_end})

\* two segments, the second opened by a seam on a frame after the end of
\* the first, and a last sampled frame after the end of the second
C25_Witness ==
    /\ mode = "video" /\ pc = "done" /\ result /= None
    /\ Len(Get(result).segments) = 2
    /\ Get(result).segments[1].frame_end < Get(result).segments[2].frame_start
    /\ Get(result).segments[2].frame_end < SetMax(SampledFrames)


\* the number of foreground pixels of column x of a mask
ForegroundCount(binary, x) ==
    Cardinality({y \in DOMAIN binary : binary[y][x] = 255})

\* the columns whose foreground count is above 30% of the height
OverThreshold(binary) ==
    {x \in DOMAIN binary[0] :
        10 * ForegroundCount(binary, x) > 3 * Cardinality(DOMAIN binary)}

SetMin(S) == CHOOSE m \in S : \A x \in S : m <= x

(* C26: for a binary mask with at least one row detect_belt_edges returns  *)
(* (None, None) when no column has more than 30% of the height in          *)
(* foreground, and otherwise the smallest and the largest such column;     *)
(* both edges are found or neither, left <= right, and the result is the   *)
(* result of the column scan alone.                                        *)
C26_DetectBeltEdges ==
    belt_edges /= None =>
        LET binary == Get(frame).mask
            over == OverThreshold(binary)
            left == Get(belt_edges)[1]
            right == Get(belt_edges)[2]
        IN /\ over = {} => Get(belt_edges) = <<None, None>>
           /\ over /= {}
                 => Get(belt_edges) =
                       <<Some(SetMin(over)), Some(SetMax(over))>>
           /\ (left = None) = (right = None)
           /\ left /= None => Get(left) <= Get(right)
           /\ Get(belt_edges) =
                 ScanEdges(binary, Cardinality(DOMAIN binary[0]), 0,
                           None, None)

\* a mask of ten rows: column 0 with exactly three foreground pixels is
\* not an edge, columns 1 and 2 are
C26_Witness ==
    /\ belt_edges = Some(<<Some(1), Some(2)>>)
    /\ Cardinality(DOMAIN Get(frame).mask) = 10
    /\ ForegroundCount(Get(frame).mask, 0) = 3


\* the widths of the segments of a list, one after the other
RECURSIVE AllWidths(_)
AllWidths(segs) ==
    IF segs = <<>> THEN <<>>
    ELSE AllWidths(SubSeq(segs, 1, Len(segs) - 1)) \o Last(segs).widths

(* C27: analyze_video loses and duplicates no valid measurement: the       *)
(* widths of the returned segments, concatenated in list order, are the    *)
(* valid measurements of the sampled frames in sampling order.             *)
C27_NoMeasurementLost ==
    (mode = "video" /\ pc = "done" /\ result /= None)
        => AllWidths(Get(result).segments)
              = WidthsIn(Measurements, SampledFrames)

\* three valid measurements in at least two segments, and a sampled frame
\* without a measurement
C27_Witness ==
    /\ mode = "video" /\ pc = "done" /\ result /= None
    /\ Len(Get(result).segments) >= 2
    /\ Len(ValidMeasurements) = 3
    /\ \E i \in SampledFrames : MeasureAt(i) = None


\* the ids successful analyze requests have been given so far: those in
\* the store and those a DELETE has removed from it
GivenIds == DOMAIN analysis_results \cup deleted

(* C28 as stated: two analyze requests that both succeed never get the    *)
(* same analysis_id, so storing the result of a request overwrites no      *)
(* stored result and every id given earlier still retrieves its own        *)
(* result.                                                                 *)
C28_Claim ==
    [][(analysis_id /= None /\ pc = "done")
        => /\ Get(analysis_id) \notin GivenIds
           /\ \A id \in DOMAIN analysis_results :
                 analysis_results'[id] = analysis_results[id]]_vars

====
